---- MODULE Spec2Model ----
(***************************************************************************)
(* Workout Tracker (src/app.py): the rotation state kept in the Firestore  *)
(* document tracker/state, the append-only logs collection, and the menu   *)
(* bar process that mutates both: startup, the deferred missed-days check  *)
(* with its per-day dialogs, and the four menu handlers.                   *)
(*                                                                         *)
(* A date is a day ordinal (0 = Monday 2024-01-01); what the code stores   *)
(* is date.isoformat(), modelled as the triple <<year, month, day>>.       *)
(* A text (a label, a dialog's input) is a sequence of one-character       *)
(* strings.                                                                *)
(***************************************************************************)
EXTENDS Integers, Sequences, FiniteSets, TLC

VARIABLES
    today,      \* datetime.date.today(): the calendar, as a day ordinal
    db_state,   \* the store's tracker/state document, or NoDoc
    logs,       \* the store's logs collection, in creation order
    pc,         \* "stopped" | "running" | "alert" (a missed-day dialog is open)
    state,      \* self.state
    cycle,      \* self.cycle
    position,   \* self.position
    timer,      \* self._missed_days_timer is started and has not fired
    chk,        \* the locals of a _check_missed_days call blocked in a dialog
    dones,      \* history: done outcomes since position was last set to 0
    interrupts, \* history: dialogs cut short by the process ending
    event,      \* history: what the last step did
    shown       \* what the menu or the schedule dialog last computed for display

vars == <<today, db_state, logs, pc, state, cycle, position, timer, chk,
          dones, interrupts, event, shown>>

----------------------------------------------------------------------------
(* Bounds of the exploration *)

\* The calendar runs from FirstDay to FirstDay + MaxDays.
MaxDays == 3

\* How many times the process may end while a missed-day dialog is open.
MaxInterrupts == 1

\* Monday 2024-01-29: the week that runs into February.
FirstDay == 4 * 7

----------------------------------------------------------------------------
(* Texts *)

push == <<"p", "u", "s", "h">>
pull == <<"p", "u", "l", "l">>
legs == <<"l", "e", "g", "s">>
rest == <<"r", "e", "s", "t">>

DEFAULT_CYCLE == <<push, pull, legs>>

\* Python's None where an ISO date may stand
None == <<>>

\* doc.exists is False
NoDoc == [exists |-> FALSE]

IsSpace(c) == c = " "

LowerChar(c) ==
    CASE c = "A" -> "a"
      [] c = "B" -> "b"
      [] c = "X" -> "x"
      [] OTHER -> c

RECURSIVE lstrip(_)
lstrip(s) == IF s # <<>> /\ IsSpace(Head(s)) THEN lstrip(Tail(s)) ELSE s

RECURSIVE rstrip(_)
rstrip(s) ==
    IF s # <<>> /\ IsSpace(s[Len(s)]) THEN rstrip(SubSeq(s, 1, Len(s) - 1)) ELSE s

strip(s) == rstrip(lstrip(s))

lower(s) == [k \in DOMAIN s |-> LowerChar(s[k])]

RECURSIVE split(_, _)
split(s, sep) ==
    IF \E k \in DOMAIN s : s[k] = sep
    THEN LET k == CHOOSE j \in DOMAIN s :
                      s[j] = sep /\ \A h \in 1..(j - 1) : s[h] # sep
         IN  <<SubSeq(s, 1, k - 1)>> \o split(SubSeq(s, k + 1, Len(s)), sep)
    ELSE <<s>>

\* [w.strip().lower() for w in text.split(",")], without the filter
RECURSIVE MapStripLower(_)
MapStripLower(ws) ==
    IF ws = <<>> THEN <<>>
    ELSE <<lower(strip(Head(ws)))>> \o MapStripLower(Tail(ws))

NonBlank(w) == strip(w) # <<>>

NewCycleUnfiltered(text) == MapStripLower(split(text, ","))

\* new_cycle of edit_cycle
NewCycle(text) == MapStripLower(SelectSeq(split(text, ","), NonBlank))

Digits == <<"0", "1", "2", "3", "4", "5", "6", "7", "8", "9">>

IsDigit(c) == \E k \in DOMAIN Digits : Digits[k] = c

DigitVal(c) == (CHOOSE k \in DOMAIN Digits : Digits[k] = c) - 1

RECURSIVE DecVal(_, _)
DecVal(s, acc) == IF s = <<>> THEN acc ELSE DecVal(Tail(s), acc * 10 + DigitVal(Head(s)))

\* what a parse that raises ValueError or TypeError yields
Raised == [ok |-> FALSE, value |-> 0]

Parsed(v) == [ok |-> TRUE, value |-> v]

\* int(s): an optional sign and decimal digits, else ValueError
ParseInt(s) ==
    LET body == IF s # <<>> /\ Head(s) \in {"+", "-"} THEN Tail(s) ELSE s
    IN  IF body = <<>> \/ \E k \in DOMAIN body : ~IsDigit(body[k])
        THEN Raised
        ELSE IF Head(s) = "-" THEN Parsed(0 - DecVal(body, 0)) ELSE Parsed(DecVal(body, 0))

----------------------------------------------------------------------------
(* Dates *)

MonthDays == <<31, 29, 31, 30, 31, 30, 31, 31, 30, 31, 30, 31>>

RECURSIVE YMD(_, _)
YMD(m, r) ==
    IF m = 12 \/ r < MonthDays[m] THEN <<2024, m, r + 1>>
    ELSE YMD(m + 1, r - MonthDays[m])

\* date.isoformat()
isoformat(d) == YMD(1, d)

RECURSIVE DaysBefore(_)
DaysBefore(m) == IF m = 1 THEN 0 ELSE DaysBefore(m - 1) + MonthDays[m - 1]

\* datetime.date.fromisoformat(): ValueError/TypeError for what is no ISO date
fromisoformat(s) ==
    IF s = None THEN Raised
    ELSE Parsed(DaysBefore(s[2]) + s[3] - 1)

----------------------------------------------------------------------------
(* The store *)

DefaultState ==
    [cycle |-> DEFAULT_CYCLE, position |-> 0, last_log_date |-> None,
     rest_days_per_week |-> 2]

\* get_state: the document, created with the defaults on the first run
get_state == IF db_state = NoDoc THEN DefaultState ELSE db_state

\* the document log_entry adds
LogDoc(workout_type, status, date) ==
    [date |-> isoformat(date), workout_type |-> workout_type, status |-> status]

log_entry(workout_type, status, date) == Append(logs, LogDoc(workout_type, status, date))

----------------------------------------------------------------------------
(* The rotation *)

\* the label after as many steps as there are done entries in the log
WorkoutAfterDones ==
    cycle[(Cardinality({k \in DOMAIN logs : logs[k].status = "done"}) % Len(cycle)) + 1]

current_workout == cycle[(position % Len(cycle)) + 1]

AdvanceTwice(pos, c) == (pos + 2) % Len(c)

AdvanceNoWrap(pos, c) == pos + 1

\* self.position = (self.position + 1) % len(self.cycle)
Advance(pos, c) == (pos + 1) % Len(c)

LoggedNever == FALSE

\* the guard looking at the day before
LoggedYesterday == state.last_log_date = isoformat(today - 1)

_logged_today == state.last_log_date = isoformat(today)

\* one day short: the day before today is left out of the loop
GapDaysShort(t, last) == t - last - 1

GapDaysInclusive(t, last) == t - last + 1

\* gap = (today - last).days
GapDays(t, last) == t - last

ReconciledToLast(t, last) == isoformat(last - 1)

ReconciledToToday(t, last) == isoformat(t)

\* (today - datetime.timedelta(days=1)).isoformat(), what a finished check stores
ReconciledLastLogDate(t, last) == isoformat(t - 1)

AnyTarget(n) == 0 <= n

\* 0 <= new_target <= 7
ValidTarget(n) == 0 <= n /\ n <= 7

\* nothing computed for display yet
NoView == [view |-> "none"]

NoChk == [last |-> 0, today |-> 0, gap |-> 0, i |-> 0, changed |-> FALSE]

----------------------------------------------------------------------------
(* Inputs *)

\* what the user may type into the Edit Cycle window
CycleTexts ==
    { <<>>,
      <<" ">>,
      <<",", " ", ",">>,
      <<" ", "A", ",", " ", "b", " ", ",">>,
      <<"X">> }

\* what the user may type into the Rest Days/Week window
RestTexts ==
    { <<>>, <<"x">>, <<"8">>, <<"-", "1">>, <<"7", ".", "5">>, <<" ", "7", " ">> }

\* a rumps.Window response: Cancel, or Save with the text typed
WindowResponses(texts) ==
    {[clicked |-> FALSE, text |-> <<>>]} \cup {[clicked |-> TRUE, text |-> t] : t \in texts}

\* an alert that ended with none of its three buttons chosen
NoDecision == 0 - 2

\* rumps.alert: 1 (ok, Done), 0 (cancel, Skip), -1 (other, Rest)
Responses == {1, 0, 0 - 1, NoDecision}

\* new_cycle of edit_cycle, tabulated over the texts
new_cycle == [text \in CycleTexts \cup {<<>>} |-> NewCycle(text)]

\* int(response.text.strip()) of edit_rest_target, tabulated over the texts
int_of == [text \in RestTexts \cup {<<>>} |-> ParseInt(strip(text))]

----------------------------------------------------------------------------
(* The process *)

Init ==
    /\ today = FirstDay
    /\ db_state = NoDoc
    /\ logs = <<>>
    /\ pc = "stopped"
    /\ state = NoDoc
    /\ cycle = <<>>
    /\ position = 0
    /\ timer = FALSE
    /\ chk = NoChk
    /\ dones = 0
    /\ interrupts = 0
    /\ event = "init"
    /\ shown = NoView

\* WorkoutTracker.__init__, with the Firebase key in place
Start ==
    /\ pc = "stopped"
    /\ db_state' = get_state
    /\ state' = get_state
    /\ cycle' = get_state.cycle
    /\ position' = get_state.position
    /\ timer' = TRUE
    /\ pc' = "running"
    /\ event' = "start"
    /\ UNCHANGED <<shown, today, logs, chk, dones, interrupts>>

\* __deferred_missed_check, and _check_missed_days up to its first dialog
_deferred_missed_check ==
    /\ pc = "running"
    /\ timer
    /\ timer' = FALSE
    /\ LET last_log_date == state.last_log_date
           last == fromisoformat(last_log_date).value
           gap == GapDays(today, last)
       IN  IF last_log_date = None \/ ~fromisoformat(last_log_date).ok \/ gap <= 1
           THEN /\ event' = "check_noop"
                /\ UNCHANGED <<pc, chk>>
           ELSE /\ pc' = "alert"
                /\ chk' = [last |-> last, today |-> today, gap |-> gap, i |-> 1,
                           changed |-> FALSE]
                /\ event' = "check_prompt"
    /\ UNCHANGED <<shown, today, db_state, logs, state, cycle, position, dones, interrupts>>

\* one pass of the loop of _check_missed_days: the dialog answers `response`;
\* after the last missed day, the state is saved
missed_day(response) ==
    /\ pc = "alert"
    /\ LET missed_date == chk.last + chk.i
           workout == cycle[(position % Len(cycle)) + 1]
       IN  /\ IF response = 1
              THEN /\ logs' = log_entry(workout, "done", missed_date)
                   /\ position' = Advance(position, cycle)
                   /\ dones' = dones + 1
              ELSE IF response = 0 - 1
              THEN /\ logs' = log_entry(rest, "rest", missed_date)
                   /\ UNCHANGED <<position, dones>>
              ELSE /\ logs' = log_entry(workout, "skip", missed_date)
                   /\ UNCHANGED <<position, dones>>
           /\ IF chk.i + 1 < chk.gap
              THEN /\ chk' = [chk EXCEPT !.i = chk.i + 1, !.changed = TRUE]
                   /\ event' = IF response = NoDecision THEN "backfill_no_decision"
                               ELSE "backfill"
                   /\ UNCHANGED <<pc, state, db_state>>
              ELSE /\ state' = [state EXCEPT
                                  !.position = position',
                                  !.last_log_date = ReconciledLastLogDate(chk.today, chk.last)]
                   /\ db_state' = state'
                   /\ chk' = NoChk
                   /\ pc' = "running"
                   /\ event' = IF response = NoDecision THEN "reconciled_no_decision"
                               ELSE "reconciled"
    /\ UNCHANGED <<shown, today, cycle, timer, interrupts>>

mark_done ==
    /\ pc = "running"
    /\ IF _logged_today
       THEN /\ event' = "mark_ignored"
            /\ UNCHANGED <<db_state, logs, state, position, dones>>
       ELSE /\ logs' = log_entry(current_workout, "done", today)
            /\ position' = Advance(position, cycle)
            /\ state' = [state EXCEPT !.position = position',
                                      !.last_log_date = isoformat(today)]
            /\ db_state' = state'
            /\ dones' = dones + 1
            /\ event' = "mark_done"
    /\ UNCHANGED <<shown, today, pc, cycle, timer, chk, interrupts>>

mark_rest ==
    /\ pc = "running"
    /\ IF _logged_today
       THEN /\ event' = "mark_ignored"
            /\ UNCHANGED <<db_state, logs, state>>
       ELSE /\ logs' = log_entry(rest, "rest", today)
            /\ state' = [state EXCEPT !.last_log_date = isoformat(today)]
            /\ db_state' = state'
            /\ event' = "mark_rest"
    /\ UNCHANGED <<shown, today, pc, cycle, position, timer, chk, dones, interrupts>>

edit_cycle(clicked, text) ==
    /\ pc = "running"
    /\ IF clicked /\ new_cycle[text] # <<>>
       THEN /\ cycle' = new_cycle[text]
            /\ position' = 0
            /\ state' = [state EXCEPT !.cycle = cycle', !.position = 0]
            /\ db_state' = state'
            /\ dones' = 0
            /\ event' = "edit_cycle"
       ELSE /\ event' = "edit_cycle_rejected"
            /\ UNCHANGED <<cycle, position, state, db_state, dones>>
    /\ UNCHANGED <<shown, today, logs, pc, timer, chk, interrupts>>

edit_rest_target(clicked, text) ==
    /\ pc = "running"
    /\ LET new_target == int_of[text]
       IN  IF clicked /\ new_target.ok /\ ValidTarget(new_target.value)
           THEN /\ state' = [state EXCEPT !.rest_days_per_week = new_target.value]
                /\ db_state' = state'
                /\ event' = "edit_rest_target"
           ELSE /\ event' = "edit_rest_target_rejected"
                /\ UNCHANGED <<state, db_state>>
    /\ UNCHANGED <<shown, today, logs, pc, cycle, position, timer, chk, dones, interrupts>>

\* the Quit menu item: rumps.quit_application
Quit ==
    /\ pc = "running"
    /\ pc' = "stopped"
    /\ state' = NoDoc
    /\ cycle' = <<>>
    /\ position' = 0
    /\ timer' = FALSE
    /\ event' = "quit"
    /\ UNCHANGED <<shown, today, db_state, logs, chk, dones, interrupts>>

\* the process ends while a missed-day dialog is open
Interrupt ==
    /\ pc = "alert"
    /\ interrupts < MaxInterrupts
    /\ interrupts' = interrupts + 1
    /\ pc' = "stopped"
    /\ state' = NoDoc
    /\ cycle' = <<>>
    /\ position' = 0
    /\ timer' = FALSE
    /\ chk' = NoChk
    /\ event' = "interrupt"
    /\ UNCHANGED <<shown, today, db_state, logs, dones>>

\* midnight
Tick ==
    /\ today < FirstDay + MaxDays
    /\ today' = today + 1
    /\ event' = "tick"
    /\ UNCHANGED <<shown, db_state, logs, pc, state, cycle, position, timer, chk, dones,
                   interrupts>>

Next ==
    \/ Start
    \/ _deferred_missed_check
    \/ \E response \in Responses : missed_day(response)
    \/ mark_done
    \/ mark_rest
    \/ \E response \in WindowResponses(CycleTexts) :
           edit_cycle(response.clicked, response.text)
    \/ \E response \in WindowResponses(RestTexts) :
           edit_rest_target(response.clicked, response.text)
    \/ Quit
    \/ Tick

Spec == Init /\ [][Next]_vars

NextInterrupt == Next \/ Interrupt

SpecInterrupt == Init /\ [][NextInterrupt]_vars

----------------------------------------------------------------------------
(* The history views *)

\* get_history(db, limit): the newest `limit` entries, newest first
get_history(limit) ==
    LET n == Len(logs)
        m == IF n < limit THEN n ELSE limit
    IN  [k \in 1..m |-> logs[n + 1 - k]]

\* the loop of _get_streak from entry k on
RECURSIVE StreakScan(_, _, _, _)
StreakScan(entries, k, expected, streak) ==
    IF k > Len(entries) THEN streak
    ELSE LET entry_date == fromisoformat(entries[k].date)
         IN  IF ~entry_date.ok THEN streak
             ELSE IF entry_date.value # expected THEN streak
             ELSE StreakScan(entries, k + 1, expected - 1,
                             IF entries[k].status = "done" THEN streak + 1 ELSE streak)

StreakIgnoringDates ==
    Cardinality({k \in DOMAIN get_history(60) : get_history(60)[k].status = "done"})

_get_streak == StreakScan(get_history(60), 1, today, 0)

\* _build_menu, as far as it computes what it displays
_build_menu ==
    /\ pc = "running"
    /\ shown' = [view |-> "menu", streak |-> _get_streak, done_today |-> _logged_today]
    /\ event' = "build_menu"
    /\ UNCHANGED <<today, db_state, logs, pc, state, cycle, position, timer, chk, dones,
                   interrupts>>

\* today.weekday(): Monday is 0
weekday(d) == d % 7

\* monday = today - datetime.timedelta(days=today.weekday())
monday == today - weekday(today)

_rest_days_this_week ==
    LET entries == get_history(30)
    IN  Cardinality({k \in DOMAIN entries :
            /\ fromisoformat(entries[k].date).ok
            /\ monday <= fromisoformat(entries[k].date).value
            /\ fromisoformat(entries[k].date).value <= today
            /\ entries[k].status = "rest"})

\* logged.get(day_str): the first entry of get_history(30) with that date,
\* as a set that is empty when there is none
logged(day_str) ==
    LET entries == get_history(30)
        at == {k \in DOMAIN entries : entries[k].date = day_str}
    IN  {entries[k] : k \in {j \in at : \A h \in at : j <= h}}

IsUnlogged(i) == logged(isoformat(monday + i)) = {} /\ monday + i >= today

\* unlogged: the indices of today (if not logged) and the days after it
unlogged == SelectSeq(<<0, 1, 2, 3, 4, 5, 6>>, IsUnlogged)

\* rest_remaining = max(0, rest_target - rest_taken)
rest_remaining ==
    IF state.rest_days_per_week - _rest_days_this_week > 0
    THEN state.rest_days_per_week - _rest_days_this_week
    ELSE 0

\* rounding with halves going up
RoundHalfUp(num, den) == (2 * num + den) \div (2 * den)

\* round(num / den) of Python 3 for num >= 0, den > 0: halves go to the even
\* neighbour. For 1 <= n, r <= 7 the float product (n / r) * k of the code
\* rounds to the same integer as the exact quotient n * k / r.
round(num, den) ==
    LET q == num \div den
        twice == 2 * (num % den)
    IN  IF twice < den THEN q
        ELSE IF twice > den THEN q + 1
        ELSE IF q % 2 = 0 THEN q ELSE q + 1

\* idx = int(round(step * (i + 1))) - 1 with step = n / r and k = i + 1
StepIndex(n, r, k) == round(n * k, r) - 1

\* idx = min(idx, len(unlogged) - 1)
ClampedIndex(n, r, k) ==
    IF StepIndex(n, r, k) < n - 1 THEN StepIndex(n, r, k) ELSE n - 1

\* seq[idx] of a Python list: a negative idx counts from the end
PyItem(seq, idx) == IF idx < 0 THEN seq[Len(seq) + idx + 1] ELSE seq[idx + 1]

\* rest_indices: the weekday indices predicted to be rest days
rest_indices ==
    IF rest_remaining > 0 /\ Len(unlogged) > 0
    THEN {PyItem(unlogged, ClampedIndex(Len(unlogged), rest_remaining, k)) :
             k \in 1..rest_remaining}
    ELSE {}

\* cycle_pos before the walk: one step back when today is logged
StartCursor ==
    IF _logged_today THEN (position - 1) % Len(cycle) ELSE position

\* the lines of _get_week_schedule from weekday index i on
RECURSIVE WeekLines(_, _)
WeekLines(i, cycle_pos) ==
    IF i > 6 THEN <<>>
    ELSE LET day == monday + i
             entry == logged(isoformat(day))
             here == day = today
         IN  IF entry # {}
             THEN LET e == CHOOSE x \in entry : TRUE
                  IN  <<[day |-> i, kind |-> "logged", status |-> e.status,
                         wtype |-> e.workout_type, arrow |-> here]>>
                      \o WeekLines(i + 1, IF e.status = "done"
                                          THEN (cycle_pos + 1) % Len(cycle)
                                          ELSE cycle_pos)
             ELSE IF day < today
             THEN <<[day |-> i, kind |-> "past", status |-> "", wtype |-> <<>>,
                     arrow |-> here]>>
                  \o WeekLines(i + 1, cycle_pos)
             ELSE IF i \in rest_indices
             THEN <<[day |-> i, kind |-> "rest", status |-> "", wtype |-> rest,
                     arrow |-> here]>>
                  \o WeekLines(i + 1, cycle_pos)
             ELSE <<[day |-> i, kind |-> "predicted", status |-> "",
                     wtype |-> cycle[(cycle_pos % Len(cycle)) + 1], arrow |-> here]>>
                  \o WeekLines(i + 1, (cycle_pos + 1) % Len(cycle))

_get_week_schedule == WeekLines(0, StartCursor)

\* show_schedule, as far as it computes what the dialog displays
show_schedule ==
    /\ pc = "running"
    /\ shown' = [view |-> "schedule", lines |-> _get_week_schedule,
                 rest_taken |-> _rest_days_this_week,
                 rest_target |-> state.rest_days_per_week]
    /\ event' = "show_schedule"
    /\ UNCHANGED <<today, db_state, logs, pc, state, cycle, position, timer, chk, dones,
                   interrupts>>

----------------------------------------------------------------------------
(* The streak over every history of a few days *)

\* The histories tried hold the days from today - StreakWindow to today.
StreakWindow == 3

DayStatuses == {"none", "done", "rest", "skip"}

\* the entries of the days d..last that f logs, oldest first, as the handlers
\* wrote them with nd dones before
RECURSIVE LogsFrom(_, _, _, _)
LogsFrom(f, d, last, nd) ==
    IF d > last THEN <<>>
    ELSE IF f[d] = "none" THEN LogsFrom(f, d + 1, last, nd)
    ELSE IF f[d] = "rest" THEN <<LogDoc(rest, "rest", d)>> \o LogsFrom(f, d + 1, last, nd)
    ELSE <<LogDoc(DEFAULT_CYCLE[(nd % 3) + 1], f[d], d)>>
            \o LogsFrom(f, d + 1, last, IF f[d] = "done" THEN nd + 1 ELSE nd)

DonesOf(f) == Cardinality({d \in DOMAIN f : f[d] = "done"})

\* the newest date f logs, as last_log_date holds it
LastLogged(f) ==
    IF \A d \in DOMAIN f : f[d] = "none" THEN None
    ELSE isoformat(CHOOSE d \in DOMAIN f :
                      f[d] # "none" /\ \A e \in DOMAIN f : e > d => f[e] = "none")

\* the running process on day t with the history f behind it and the rest
\* target set to rest_target
RunningWith(f, t, rest_target) ==
    /\ today = t
    /\ logs = LogsFrom(f, t - 7, t, 0)
    /\ state = [DefaultState EXCEPT !.position = DonesOf(f) % 3,
                                    !.last_log_date = LastLogged(f),
                                    !.rest_days_per_week = rest_target]
    /\ db_state = state
    /\ cycle = DEFAULT_CYCLE
    /\ position = DonesOf(f) % 3
    /\ dones = DonesOf(f)
    /\ pc = "running"
    /\ timer = FALSE
    /\ chk = NoChk
    /\ interrupts = 0
    /\ event = "init"
    /\ shown = NoView

NoDays(t) == [d \in (t - 7)..t |-> "none"]

InitStreak ==
    \E f \in [(FirstDay + 7 - StreakWindow)..(FirstDay + 7) -> DayStatuses] :
        RunningWith(f @@ NoDays(FirstDay + 7), FirstDay + 7, 2)

NextStreak == _build_menu

SpecStreak == InitStreak /\ [][NextStreak]_vars

----------------------------------------------------------------------------
(* The schedule over every history of the week of FirstDay *)

WeekStatuses == {"none", "done", "rest"}

InitWeek ==
    \E t \in FirstDay..(FirstDay + 6) :
        \E f \in [FirstDay..t -> WeekStatuses], rest_target \in 0..7 :
            RunningWith(f @@ NoDays(t), t, rest_target)

NextWeek == show_schedule

SpecWeek == InitWeek /\ [][NextWeek]_vars

----------------------------------------------------------------------------
(* The week that begins with push done on Monday and pull done on Tuesday *)

\* Wednesday: both days are in the log, and the cycle has since been saved
\* again as push, pull, legs with Edit Cycle, which set the position to 0
InitScenario ==
    /\ today = FirstDay + 2
    /\ logs = <<LogDoc(push, "done", FirstDay), LogDoc(pull, "done", FirstDay + 1)>>
    /\ state = [DefaultState EXCEPT !.position = 0,
                                    !.last_log_date = isoformat(FirstDay + 1)]
    /\ db_state = state
    /\ cycle = DEFAULT_CYCLE
    /\ position = 0
    /\ pc = "running"
    /\ timer = FALSE
    /\ chk = NoChk
    /\ dones = 0
    /\ interrupts = 0
    /\ event = "edit_cycle"
    /\ shown = NoView

SpecScenario == InitScenario /\ [][Next]_vars

----------------------------------------------------------------------------
(* What the claims speak of *)

\* the day ordinal of a stored last_log_date; -1 when there is none
DateOrd(s) == IF s = None THEN 0 - 1 ELSE fromisoformat(s).value

LastOrd(doc) == IF doc = NoDoc THEN 0 - 1 ELSE DateOrd(doc.last_log_date)

HasStatus(status) == \E k \in DOMAIN logs : logs[k].status = status

DatedEntries(d) == {k \in DOMAIN logs : logs[k].date = isoformat(d)}

\* a rest or skip outcome: mark_rest, or a missed day answered other than Done
RestOrSkipOutcome ==
    /\ event' \in {"mark_rest", "mark_ignored", "backfill", "backfill_no_decision",
                   "reconciled", "reconciled_no_decision"}
    /\ \/ mark_rest
       \/ \E response \in Responses \ {1} : missed_day(response)

(* C1: the position the process holds is the number of done outcomes since *)
(* it was last 0, modulo the length of the cycle, and a rest or skip       *)
(* outcome leaves the position as it was.                                  *)
RotationInvariant ==
    /\ [](pc # "stopped" => position = dones % Len(cycle))
    /\ [](pc = "running" => db_state.position = dones % Len(db_state.cycle))
    /\ [][RestOrSkipOutcome => position' = position]_vars

\* three dones on the three-label cycle, a skipped day among them: wrapped to 0
RotationWrapped ==
    /\ event = "mark_done"
    /\ Len(cycle) = 3
    /\ dones = 3
    /\ position = 0
    /\ HasStatus("skip")

InRange(pos, c) == c # <<>> /\ 0 <= pos /\ pos < Len(c)

(* C2: in every reachable state the cycle is non-empty and the position is *)
(* an index into it, in the process and in the stored document.            *)
PositionInRange ==
    /\ pc # "stopped" => InRange(position, cycle) /\ InRange(state.position, state.cycle)
    /\ db_state # NoDoc => InRange(db_state.position, db_state.cycle)

\* a backfilled done took the two-label cycle from its last index back to 0
BackfillWrapped ==
    /\ event = "reconciled"
    /\ Len(cycle) = 2
    /\ dones = 2
    /\ position = 0
    /\ logs[Len(logs)].status = "done"

(* C3: with last_log_date equal to today, mark_done and mark_rest append   *)
(* no log entry and leave position and last_log_date as they were; and     *)
(* when either does append an entry, the log held none dated today.        *)
NoDoubleLogging ==
    /\ [][(pc = "running" /\ state.last_log_date = isoformat(today)
              /\ (mark_done \/ mark_rest))
            => UNCHANGED <<logs, position, state, db_state>>]_vars
    /\ [][(logs' # logs /\ (mark_done \/ mark_rest)) => DatedEntries(today) = {}]_vars

\* Done or Rest was clicked again on a day already logged
SecondMarkIgnored ==
    /\ event = "mark_ignored"
    /\ state.last_log_date = isoformat(today)
    /\ Cardinality(DatedEntries(today)) = 1

(* C4: no step sets last_log_date, stored or in the process, to an earlier *)
(* date than it held.                                                      *)
LastLogDateMonotone ==
    [][/\ LastOrd(db_state') >= LastOrd(db_state)
       /\ (pc # "stopped" /\ pc' # "stopped") => LastOrd(state') >= LastOrd(state)
       /\ pc' # "stopped" => LastOrd(state') >= LastOrd(db_state)]_vars

\* a finished check moved last_log_date forward, to a day before yesterday
\* because midnight passed while a dialog was open
ReconciledBehindToday ==
    /\ event = "reconciled"
    /\ DateOrd(state.last_log_date) = today - 2
    /\ Len(logs) >= 2

IsUpper(c) == c \in {"A", "B", "X"}

\* the text has a label: a character that is neither a space nor a comma
HasLabel(text) == \E k \in DOMAIN text : text[k] \notin {" ", ","}

NotBlankChar(c) == c \notin {" ", ","}

RECURSIVE Concat(_)
Concat(ws) == IF ws = <<>> THEN <<>> ELSE Head(ws) \o Concat(Tail(ws))

\* the places of the text where a label starts: a character that is no space
\* or comma with nothing but spaces between it and the comma (or start) before
LabelStarts(text) ==
    {k \in DOMAIN text :
        /\ NotBlankChar(text[k])
        /\ \E j \in 0..(k - 1) :
              /\ j = 0 \/ text[j] = ","
              /\ \A h \in (j + 1)..(k - 1) : text[h] = " "}

\* c is the list of the text's labels, trimmed and lower-cased
IsNormalized(c, text) ==
    /\ \A k \in DOMAIN c :
          /\ c[k] # <<>>
          /\ c[k][1] # " " /\ c[k][Len(c[k])] # " "
          /\ \A h \in DOMAIN c[k] : c[k][h] # "," /\ ~IsUpper(c[k][h])
    /\ Len(c) = Cardinality(LabelStarts(text))
    /\ SelectSeq(Concat(c), NotBlankChar) = SelectSeq(lower(text), NotBlankChar)

(* C5: Save in the Edit Cycle window with a text that has a label replaces *)
(* the cycle by the text's labels, trimmed and lower-cased, and sets       *)
(* position to 0, in the process and in the store; with a text of spaces   *)
(* and commas only, cycle, position and the stored document stay as they   *)
(* were.                                                                   *)
CycleEditContract ==
    [][\A text \in CycleTexts :
          (event' \in {"edit_cycle", "edit_cycle_rejected"} /\ edit_cycle(TRUE, text)) =>
             IF HasLabel(text)
             THEN /\ IsNormalized(cycle', text)
                  /\ position' = 0
                  /\ state'.cycle = cycle' /\ state'.position = 0
                  /\ db_state' = state'
             ELSE UNCHANGED <<cycle, position, state, db_state>>]_vars

\* the cycle was replaced after a done had moved position to 1
CycleReplacedAfterDone ==
    /\ event = "edit_cycle"
    /\ cycle = << <<"a">>, <<"b">> >>
    /\ position = 0
    /\ logs # <<>>
    /\ logs[Len(logs)].status = "done"
    /\ logs[Len(logs)].workout_type = push

\* str(n) for a one-digit n
Decimal(n) == <<Digits[n + 1]>>

\* the n in 0..7 that a text, trimmed, is the decimal of
TargetsWritten == [text \in RestTexts |-> {n \in 0..7 : Decimal(n) = strip(text)}]

(* C6: Save in the Rest Days/Week window sets rest_days_per_week to n when *)
(* the text, trimmed, is the decimal of an n in 0..7, and otherwise leaves *)
(* the state and the stored document as they were; rest_days_per_week is   *)
(* in 0..7 in every reachable state.                                       *)
RestTargetContract ==
    /\ [](pc # "stopped" => state.rest_days_per_week \in 0..7)
    /\ [](db_state # NoDoc => db_state.rest_days_per_week \in 0..7)
    /\ [][\A text \in RestTexts :
             (event' \in {"edit_rest_target", "edit_rest_target_rejected"}
                /\ edit_rest_target(TRUE, text)) =>
                IF TargetsWritten[text] # {}
                THEN /\ state'.rest_days_per_week \in TargetsWritten[text]
                     /\ db_state' = state'
                     /\ state' = [state EXCEPT
                                    !.rest_days_per_week = state'.rest_days_per_week]
                ELSE UNCHANGED <<state, db_state>>]_vars

\* the target was set to 7
RestTargetSet ==
    /\ event = "edit_rest_target"
    /\ state.rest_days_per_week = 7
    /\ db_state.rest_days_per_week = 7

(* C7: a missed-days check that starts after an earlier one was cut short  *)
(* asks only about the days the earlier one had not processed: whenever a  *)
(* dialog is open for a missed day, the log holds no entry dated that day  *)
(* or later.                                                               *)
ResumedRunAsksOnlyRemainingDays ==
    pc = "alert" =>
        \A k \in DOMAIN logs : DateOrd(logs[k].date) < chk.last + chk.i

(* C8: a missed-day dialog that ends with no decision appends no log entry *)
(* and ends the check.                                                     *)
NoDecisionAppendsNothing ==
    [][missed_day(NoDecision) => logs' = logs /\ pc' = "running"]_vars

(* C9: the missed-days check with no last_log_date, or with last_log_date  *)
(* today or yesterday, opens no dialog, appends no log entry and leaves    *)
(* position, cycle, state and the stored document as they were.            *)
GapCheckNoOp ==
    [][(_deferred_missed_check
          /\ (state.last_log_date = None \/ today - DateOrd(state.last_log_date) <= 1))
        => pc' = "running" /\ UNCHANGED <<logs, position, cycle, state, db_state>>]_vars

\* the check ran the day after a logged day and did nothing
CheckSkippedYesterday ==
    /\ event = "check_noop"
    /\ logs # <<>>
    /\ DateOrd(state.last_log_date) = today - 1

(* C10: a missed-days check that processed its missed days stores, as      *)
(* last_log_date, the day before the date it read as today; that is not    *)
(* the current date, so _logged_today is false once it has finished.       *)
ReconciledToYesterday ==
    [][(pc = "alert" /\ pc' = "running")
        => /\ state'.last_log_date = isoformat(chk.today - 1)
           /\ db_state'.last_log_date = isoformat(chk.today - 1)
           /\ state'.last_log_date # isoformat(today')
           /\ ~(_logged_today)']_vars

\* yesterday was backfilled as skipped, and today's Done was then accepted
MarkedDoneAfterReconciling ==
    /\ event = "mark_done"
    /\ Len(logs) >= 3
    /\ logs[Len(logs) - 1].status = "skip"
    /\ logs[Len(logs) - 1].date = isoformat(today - 1)
    /\ logs[Len(logs)].date = isoformat(today)
    /\ state.last_log_date = isoformat(today)

HasEntry(d) == \E k \in DOMAIN logs : logs[k].date = isoformat(d)

HasDone(d) == \E k \in DOMAIN logs : logs[k].date = isoformat(d) /\ logs[k].status = "done"

\* how many days, counting back from today and with today, are each logged done
ConsecutiveDoneDays ==
    CHOOSE n \in 0..Len(logs) :
        /\ \A d \in (today - n + 1)..today : HasDone(d)
        /\ ~HasDone(today - n)

(* C11: the streak displayed is the number of consecutive calendar days,   *)
(* counting back from today and with today, that are each logged done.     *)
StreakCountsConsecutiveDoneDays ==
    shown.view = "menu" => shown.streak = ConsecutiveDoneDays

\* the newest day, counting back from today, that has no log entry
FirstMissingDay ==
    CHOOSE m \in (today - Len(logs))..today :
        ~HasEntry(m) /\ \A d \in (m + 1)..today : HasEntry(d)

(* C12: with at most one entry per day, delivered newest first, the streak *)
(* displayed is the number of days logged done after the newest day that   *)
(* has no entry: no entry of that day or before contributes.               *)
StreakEndsAtMissingDay ==
    shown.view = "menu" =>
        shown.streak = Cardinality({d \in (FirstMissingDay + 1)..today : HasDone(d)})

\* done today and two days ago, nothing yesterday: a streak of 1
StreakBrokenByGap ==
    /\ shown.view = "menu"
    /\ HasDone(today) /\ ~HasEntry(today - 1) /\ HasDone(today - 2)
    /\ shown.streak = 1

\* the lines of the displayed schedule of one kind
LinesOf(kind) == {j \in DOMAIN shown.lines : shown.lines[j].kind = kind}

\* m is the integer nearest to num / den, the even one of the two when
\* num / den lies halfway between them
IsNearestEven(m, num, den) ==
    \/ /\ 2 * den * m - 2 * num < den
       /\ 2 * num - 2 * den * m < den
    \/ /\ 2 * den * m - 2 * num \in {den, 0 - den}
       /\ m % 2 = 0

\* the index of a label in the cycle, counted from 0
CycleIndex(label) == CHOOSE c \in 0..(Len(cycle) - 1) : cycle[c + 1] = label

(* C13: when rest_remaining = r > 0 and the n unlogged slots are at least r,   *)
(* the displayed schedule marks exactly r distinct unlogged slots as rest, the *)
(* slots at list positions round((n / r) * k) - 1 for k = 1..r, and every      *)
(* other unlogged slot is a rotation prediction, each one step further along   *)
(* the cycle than the prediction before it in weekday order.                   *)
RestDistribution ==
    (shown.view = "schedule" /\ rest_remaining > 0 /\ rest_remaining <= Len(unlogged)) =>
        LET n == Len(unlogged)
            r == rest_remaining
            slots == {unlogged[p] : p \in 1..n}
            predicted == LinesOf("predicted")
        IN  /\ Cardinality(LinesOf("rest")) = r
            /\ \A j \in LinesOf("rest") : shown.lines[j].wtype = rest
            /\ {shown.lines[j].day : j \in LinesOf("rest")}
                 = {unlogged[m] : m \in {p \in 1..n : \E k \in 1..r : IsNearestEven(p, n * k, r)}}
            /\ {shown.lines[j].day : j \in LinesOf("rest") \cup predicted} = slots
            /\ \A j \in predicted : \A h \in predicted :
                  (j < h /\ \A g \in predicted : ~(j < g /\ g < h)) =>
                      CycleIndex(shown.lines[h].wtype)
                        = (CycleIndex(shown.lines[j].wtype) + 1) % Len(cycle)

\* Wednesday, nothing logged from today on, rest target 2 and no rest taken:
\* five unlogged slots, of which Thursday and Sunday are predicted rest
TwoRestDaysAmongFive ==
    /\ shown.view = "schedule"
    /\ weekday(today) = 2
    /\ Len(unlogged) = 5
    /\ shown.rest_target = 2
    /\ shown.rest_taken = 0
    /\ {shown.lines[j].day : j \in LinesOf("rest")} = {3, 6}
    /\ Cardinality(LinesOf("predicted")) = 3

(* C17: whenever the unlogged list is not empty, every index computed for      *)
(* k = 1..rest_remaining as round((n / rest_remaining) * k) - 1 and clamped is *)
(* a position 0..n-1 of the unlogged list, never a negative number.            *)
ClampedIndexIsValid ==
    (shown.view = "schedule" /\ Len(unlogged) > 0) =>
        \A k \in 1..rest_remaining :
            ClampedIndex(Len(unlogged), rest_remaining, k) \in 0..(Len(unlogged) - 1)

\* cycle push, pull, legs at position 0 on a Wednesday, Monday logged push/done
\* and Tuesday pull/done, nothing logged for today
InScenario ==
    /\ pc = "running"
    /\ cycle = DEFAULT_CYCLE
    /\ position = 0
    /\ weekday(today) = 2
    /\ logged(isoformat(today - 2)) = {LogDoc(push, "done", today - 2)}
    /\ logged(isoformat(today - 1)) = {LogDoc(pull, "done", today - 1)}
    /\ ~HasEntry(today)

\* mark_done sets the position to 1, where pull stands, and last_log_date to today
SetsPositionOne ==
    /\ position' = 1
    /\ cycle'[position' + 1] = pull
    /\ state'.position = 1
    /\ state'.last_log_date = isoformat(today)
    /\ db_state' = state'

\* the scenario as the claim has it: legs is served
ScenarioServesLegs ==
    /\ [](InScenario => current_workout = legs)
    /\ [][(event' = "mark_done" /\ InScenario /\ mark_done) => SetsPositionOne]_vars

(* C14: with cycle push, pull, legs at position 0 on a Wednesday, Monday       *)
(* logged push/done, Tuesday logged pull/done and no entry for Wednesday,      *)
(* current_workout is push, the label at position 0; mark_done then logs push  *)
(* as done today and sets the position to 1 (pull) and last_log_date to today. *)
ScenarioServesPush ==
    /\ [](InScenario => current_workout = push)
    /\ [][(event' = "mark_done" /\ InScenario /\ mark_done) =>
              (SetsPositionOne /\ logs' = Append(logs, LogDoc(push, "done", today)))]_vars

\* Wednesday has been marked done from the scenario
ScenarioMarkedDone ==
    /\ event = "mark_done"
    /\ weekday(today) = 2
    /\ logs = <<LogDoc(push, "done", today - 2), LogDoc(pull, "done", today - 1),
                LogDoc(push, "done", today)>>
    /\ position = 1
    /\ current_workout = pull
    /\ state.last_log_date = isoformat(today)

\* the lines of the schedule, computed now, that are rotation predictions
PredictedNow ==
    {j \in DOMAIN _get_week_schedule : _get_week_schedule[j].kind = "predicted"}

(* C15: while the program runs on the default cycle, the first day on or after *)
(* today that has no log entry and is not a predicted rest day is labelled, in *)
(* the week schedule, with cycle[position], the workout current_workout serves *)
(* next, whether or not today is logged and whether as done or as rest.        *)
PredictorAgreesWithRotation ==
    (pc = "running" /\ cycle = DEFAULT_CYCLE) =>
        \A j \in PredictedNow :
            (\A h \in PredictedNow : j <= h) =>
                _get_week_schedule[j].wtype = current_workout

\* a step in which a missed-day dialog is answered
BackfillStep ==
    /\ event' \in {"backfill", "backfill_no_decision", "reconciled", "reconciled_no_decision"}
    /\ pc = "alert"

\* the entry a step appends
Appended == logs'[Len(logs')]

(* C16: a missed-days check with gap > 1 opens its first dialog for the day    *)
(* after last_log_date and then, one dialog at a time, appends exactly one     *)
(* entry per date strictly between last_log_date and the today it read, in     *)
(* ascending order, the next dialog opening only once the previous answer is   *)
(* applied, and ends after the day before today; no entry is dated today or    *)
(* on or before the old last_log_date. A done entry records the workout at the *)
(* position of that moment and advances the position by one; rest and skip     *)
(* entries leave the position as it was.                                       *)
GapRunBackfillsEachMissedDay ==
    /\ [][(event' \in {"check_noop", "check_prompt"} /\ state.last_log_date # None
             /\ today - DateOrd(state.last_log_date) > 1)
          => /\ pc' = "alert"
             /\ chk'.last = DateOrd(state.last_log_date)
             /\ chk'.today = today
             /\ chk'.i = 1
             /\ logs' = logs]_vars
    /\ [](pc = "alert" =>
             /\ chk.last < chk.last + chk.i
             /\ chk.last + chk.i < chk.today
             /\ Len(logs) >= chk.i - 1
             /\ \A i \in 1..(chk.i - 1) :
                    logs[Len(logs) - (chk.i - 1) + i].date = isoformat(chk.last + i))
    /\ [][BackfillStep
          => /\ logs' = Append(logs, Appended)
             /\ Appended.date = isoformat(chk.last + chk.i)
             /\ Appended.status \in {"done", "rest", "skip"}
             /\ Appended.status = "done"
                  => /\ Appended.workout_type = cycle[position + 1]
                     /\ position' = (position + 1) % Len(cycle)
             /\ Appended.status # "done" => position' = position
             /\ IF chk.last + chk.i + 1 < chk.today
                THEN pc' = "alert" /\ chk' = [chk EXCEPT !.i = chk.i + 1, !.changed = TRUE]
                ELSE pc' = "running" /\ chk.last + chk.i = chk.today - 1]_vars
    /\ [][(pc = "alert" /\ ~BackfillStep) => (logs' = logs /\ chk' = chk /\ pc' = pc)]_vars

\* a check three days after the last log has backfilled both missed days
TwoMissedDaysBackfilled ==
    /\ event = "reconciled"
    /\ Len(logs) = 3
    /\ logs[1].date = isoformat(today - 3)
    /\ logs[2] = LogDoc(pull, "done", today - 2)
    /\ logs[3] = LogDoc(rest, "rest", today - 1)
    /\ position = 2
    /\ state.last_log_date = isoformat(today - 1)

(* C18: in every run without a crash the log never holds two entries with the *)
(* same date and its entries are written in strictly increasing date order,   *)
(* so that the history, which comes newest write first, is also in strictly   *)
(* descending date order.                                                     *)
LogDatesStrictlyIncrease ==
    /\ \A k \in DOMAIN logs : \A h \in DOMAIN logs :
           k < h => DateOrd(logs[k].date) < DateOrd(logs[h].date)
    /\ \A k \in DOMAIN get_history(60) : \A h \in DOMAIN get_history(60) :
           k < h => DateOrd(get_history(60)[k].date) > DateOrd(get_history(60)[h].date)

\* a marked day, a backfilled day and a marked day, one after the other
ThreeWritersInDateOrder ==
    /\ event = "mark_rest"
    /\ Len(logs) = 3
    /\ logs[1] = LogDoc(push, "done", today - 2)
    /\ logs[2] = LogDoc(pull, "skip", today - 1)
    /\ logs[3] = LogDoc(rest, "rest", today)
    /\ get_history(60)[1].date = isoformat(today)

\* last_log_date as the store holds it; absent while there is no document
StoredLastLogDate == IF db_state = NoDoc THEN None ELSE db_state.last_log_date

(* C19: whenever no missed-days check is under way, the stored last_log_date  *)
(* is absent exactly if the log is empty, and otherwise the log holds an      *)
(* entry dated last_log_date and no entry dated later.                        *)
StateConsistentWithLog ==
    pc # "alert" =>
        /\ StoredLastLogDate = None <=> logs = <<>>
        /\ logs # <<>> =>
              /\ \E k \in DOMAIN logs : logs[k].date = StoredLastLogDate
              /\ \A k \in DOMAIN logs :
                    DateOrd(logs[k].date) <= DateOrd(StoredLastLogDate)

\* the earliest date in the log
EarliestLogged == CHOOSE d \in {DateOrd(logs[k].date) : k \in DOMAIN logs} :
                      \A k \in DOMAIN logs : d <= DateOrd(logs[k].date)

(* C20: no missed day is lost: every calendar date from the earliest logged   *)
(* date to the stored last_log_date has a log entry, also when the process    *)
(* stays running over several days or the user marks a day before the         *)
(* deferred missed-days check has fired.                                      *)
NoMissedDayLost ==
    (logs # <<>> /\ StoredLastLogDate # None) =>
        \A d \in EarliestLogged..DateOrd(StoredLastLogDate) : HasEntry(d)

====
